---- MODULE Spec2Model ----
(***************************************************************************)
(* The incremental fetch-merge-persist pipeline of datautils.py:           *)
(* save_data_from_db_to_df (sync of one series), fetch_data_from_db,       *)
(* save_data_to_dataframe, calculate_next_timestamp, get_buffer_time and   *)
(* save_data_to_s3, with the upstream tables written by                    *)
(* tsdbutils.insert_data.                                                  *)
(*                                                                         *)
(* Values.  An optional value (Python None, an unbound local, a missing    *)
(* file) is the empty tuple <<>>; a present value x is <<x>>.  A point in  *)
(* time is <<"ts", n>> (a pandas Timestamp / datetime, n whole epoch       *)
(* seconds) or <<"int", n>> (a raw integer of epoch seconds, as an API     *)
(* delivers it).  A row is a record whose domain is its set of columns; a  *)
(* cell a row does not have is NaN, written <<>> by Cell.  A DataFrame is  *)
(* [columns, rows].                                                        *)
(***************************************************************************)
EXTENDS Integers, Sequences, FiniteSets, TLC

\* ------------------------------------------------------------- bounds

\* Most rows an upstream table holds.
MaxRows == 3

\* ------------------------------------------------------------- values

None == <<>>
Some(x) == <<x>>
Get(o) == o[1]

Timestamp(n) == <<"ts", n>>
RawSeconds(n) == <<"int", n>>
Epoch(c) == c[2]
IsTimestamp(c) == c[1] = "ts"

\* pd.to_datetime(x, unit='s', utc=True): epoch seconds become a Timestamp,
\* a Timestamp stays what it is.
to_datetime(c) == IF IsTimestamp(c) THEN c ELSE Timestamp(Epoch(c))

\* Python truthiness of an optional integer: None and 0 are falsy.
TruthyInt(o) == o # None /\ Get(o) # 0

\* Python truthiness of an optional string: None and "" are falsy.
TruthyStr(o) == o # None /\ Get(o) # ""

\* str(x) of an optional string inside an f-string.
FormatStr(o) == IF o = None THEN "None" ELSE Get(o)

\* str.lower() on the symbols of the model.
lower(s) ==
    CASE s = "BTC" -> "btc"
      [] s = "ETH" -> "eth"
      [] OTHER -> s

Symbols == {"BTC", "btc", "ETH"}
Resolutions == {"10m", "1h", "24h", "5m"}
Endpoints == {"price"}
BucketNames == {Some("bkt"), None}
StorageTypes == {"local", "s3"}

\* ------------------------------------------------------------- frames

Cell(row, c) == IF c \in DOMAIN row THEN <<row[c]>> ELSE <<>>

RECURSIVE RowColumns(_)
RowColumns(rows) ==
    IF rows = <<>> THEN {} ELSE (DOMAIN Head(rows)) \cup RowColumns(Tail(rows))

\* pd.DataFrame(list of dicts)
DataFrame(rows) == [columns |-> RowColumns(rows), rows |-> rows]

\* df.empty
empty(df) == df.rows = <<>> \/ df.columns = {}

\* pd.concat([a, b])
concat(a, b) == [columns |-> a.columns \cup b.columns, rows |-> a.rows \o b.rows]

RECURSIVE SelectIdx(_, _, _)
SelectIdx(rows, keep, i) ==
    IF i > Len(rows) THEN <<>>
    ELSE (IF i \in keep THEN <<rows[i]>> ELSE <<>>) \o SelectIdx(rows, keep, i + 1)

\* The rows a keep='last' deduplication would keep.
KeepLast(rows, c) ==
    {i \in 1..Len(rows) : \A j \in (i + 1)..Len(rows) : Cell(rows[j], c) # Cell(rows[i], c)}

\* The rows DataFrame.drop_duplicates(subset=c) keeps: the first occurrence
\* of every value of column c (NaN cells count as one value).
KeepFirst(rows, c) ==
    {i \in 1..Len(rows) : \A j \in 1..(i - 1) : Cell(rows[j], c) # Cell(rows[i], c)}

\* df.drop_duplicates(subset=c).reset_index(drop=True), c a column of df.
drop_duplicates(df, c) ==
    [columns |-> df.columns, rows |-> SelectIdx(df.rows, KeepFirst(df.rows, c), 1)]

\* new_df['t'] = pd.to_datetime(new_df['t'], unit='s', utc=True)
ConvertT(df) ==
    [columns |-> df.columns,
     rows |-> [i \in 1..Len(df.rows) |->
                 IF "t" \in DOMAIN df.rows[i]
                 THEN [df.rows[i] EXCEPT !["t"] = to_datetime(@)]
                 ELSE df.rows[i]]]

RowSet(df) == {df.rows[i] : i \in 1..Len(df.rows)}
\* The values of column c that are not NaN.
ColumnValues(df, c) == {df.rows[i][c] : i \in {k \in 1..Len(df.rows) : c \in DOMAIN df.rows[k]}}

\* ------------------------------------------------------------- windowing

calculate_next_timestamp(last_unix_timestamp, interval) ==
    last_unix_timestamp +
        (CASE interval = "24h" -> 86400
           [] interval = "1h" -> 3600
           [] interval = "10m" -> 600
           [] OTHER -> 0)

\* The buffer table of an earlier revision: an hour for daily data.
get_buffer_timeDaily(interval) ==
    CASE interval = "24h" -> 3600
      [] interval = "1h" -> 360
      [] interval = "10m" -> 360
      [] OTHER -> 0

get_buffer_time(interval) ==
    CASE interval = "24h" -> 360
      [] interval = "1h" -> 360
      [] interval = "10m" -> 360
      [] OTHER -> 0

\* ------------------------------------------------------------- locations

\* A name that leaves the resolution out.
SeriesNameNoResolution(symbol, resolution, endpoint_name) ==
    lower(symbol) \o "_" \o endpoint_name

\* f"{symbol.lower()}_{resolution}_{endpoint_name}"
SeriesName(symbol, resolution, endpoint_name) ==
    lower(symbol) \o "_" \o resolution \o "_" \o endpoint_name

\* file_key of save_data_from_db_to_df: where the prior snapshot is read.
ReadKey(symbol, resolution, endpoint_name, storage_type, bucket_name) ==
    IF storage_type = "s3"
    THEN "s3://" \o FormatStr(bucket_name) \o "/data/raw/"
             \o SeriesName(symbol, resolution, endpoint_name) \o ".parquet"
    ELSE "data/raw/" \o SeriesName(symbol, resolution, endpoint_name) \o ".parquet"

\* file_key of save_data_to_dataframe: where the merged snapshot is written.
WriteKey(symbol, interval, endpoint_name, bucket_name) ==
    "s3://" \o FormatStr(bucket_name) \o "/"
        \o SeriesName(symbol, interval, endpoint_name) \o ".parquet"

\* file_path of save_data_to_s3
S3Path(bucket_name, key) == "s3://" \o bucket_name \o "/" \o key

TableNames == {SeriesName(s, r, e) : s \in Symbols, r \in Resolutions, e \in Endpoints}

S3Keys ==
    {ReadKey(s, r, e, "s3", b) : s \in Symbols, r \in Resolutions, e \in Endpoints, b \in BucketNames}
    \cup {WriteKey(s, r, e, b) : s \in Symbols, r \in Resolutions, e \in Endpoints, b \in BucketNames}

Paths ==
    {ReadKey(s, r, e, st, b) : s \in Symbols, r \in Resolutions, e \in Endpoints,
                               st \in StorageTypes, b \in BucketNames}

\* ------------------------------------------------------------- inputs

Tasks == {1, 2}

\* Rows the upstream tables can hold: time is a timestamp column.
RowUniverse ==
    {[time |-> Timestamp(0), v |-> 1], [time |-> Timestamp(100), v |-> 1],
     [time |-> Timestamp(100), v |-> 2], [time |-> Timestamp(5000), v |-> 1]}

\* Snapshots that may already exist where a sync reads: written by an
\* earlier run, by save_data_to_s3, or by save_data_to_dataframe from API rows.
SeedFrames ==
    {[columns |-> {"time", "v"}, rows |-> <<>>],
     DataFrame(<<[time |-> Timestamp(100), v |-> 1]>>),
     DataFrame(<<[time |-> Timestamp(0), v |-> 1]>>),
     DataFrame(<<[time |-> Timestamp(100), v |-> 9], [time |-> Timestamp(100), v |-> 1]>>),
     DataFrame(<<[t |-> Timestamp(100), v |-> 1]>>)}

ArgSpace ==
    [symbol : Symbols, resolution : Resolutions, endpoint_name : Endpoints,
     storage_type : StorageTypes, bucket_name : BucketNames]

\* ------------------------------------------------------------- fetch_data_from_db

\* SELECT * FROM table [WHERE time > to_timestamp(since)]: the WHERE clause
\* is added only when since is truthy.
QueryRows(table, since) ==
    IF TruthyInt(since)
    THEN {r \in table : Epoch(r.time) > Epoch(Timestamp(Get(since)))}
    ELSE table

\* A result cut short: every ascending order of every part of the rows.
OrderingsPartial(S) ==
    {f \in UNION {[1..Cardinality(T) -> T] : T \in SUBSET S} :
        \A i, j \in DOMAIN f :
            i < j => f[i] # f[j] /\ Epoch(f[i].time) <= Epoch(f[j].time)}

\* ORDER BY time: every order of the rows that ascends in time (rows of
\* equal time come in an order the database chooses).
Orderings(S) ==
    {f \in [1..Cardinality(S) -> S] :
        \A i, j \in 1..Cardinality(S) :
            i < j => f[i] # f[j] /\ Epoch(f[i].time) <= Epoch(f[j].time)}

\* The lists fetch_data_from_db can return; a failed query is degraded to [].
fetch_data_from_db(table, since, query_ok) ==
    IF query_ok THEN Orderings(QueryRows(table, since)) ELSE {<<>>}

\* ------------------------------------------------------------- save_data_to_dataframe

\* What save_data_to_dataframe does up to the write: the exception it raises
\* (None: none) and the (key, df) it hands to to_parquet (None: no write).
\* data is [frame, dicts, rows]: a DataFrame, or a list whose rows are dicts
\* or not (an asyncpg Record is not a dict).
save_data_to_dataframe(symbol, interval, endpoint_name, data, existing_df, storage_type, bucket_name) ==
    LET formatOk ==
            data.frame \/ \A i \in 1..Len(data.rows) :
                              data.dicts /\ Cardinality(DOMAIN data.rows[i]) = 2
        new_df == ConvertT(DataFrame(data.rows))
        merging == existing_df # None /\ ~empty(Get(existing_df))
        both == concat(Get(existing_df), new_df)
        df == IF merging THEN drop_duplicates(both, "t") ELSE new_df
    IN  IF ~formatOk THEN [raised |-> None, write |-> None]
        ELSE IF merging /\ "t" \notin both.columns
             THEN [raised |-> Some("KeyError"), write |-> None]
        ELSE IF storage_type = "s3" /\ TruthyStr(bucket_name)
             THEN [raised |-> None,
                   write |-> Some([key |-> WriteKey(symbol, interval, endpoint_name, bucket_name),
                                   df |-> df])]
        ELSE [raised |-> None, write |-> None]

\* ------------------------------------------------------------- state

VARIABLES
    db,            \* upstream tables: table name -> set of rows
    s3,            \* object store: key -> optional DataFrame
    fs,            \* local files: path -> optional DataFrame
    args,          \* the arguments each task calls save_data_from_db_to_df with
    rowsAreDicts,  \* whether the pool's connections return dict rows
    pc,            \* where each task is in save_data_from_db_to_df
    df,            \* its local df (None: unbound)
    since,         \* its local since
    data,          \* its local data
    err,           \* the exception it raised to its caller (None: none)
    caught,        \* the exception its second try block caught and logged
    failed,        \* whether a storage or database failure hit the call
    queried,       \* the rows its table held when its query ran
    wrote,         \* the (key, df) it wrote
    touched,       \* the keys it read or wrote
    stable,        \* whether nothing changed from outside while it runs
    hist,          \* the completed calls since the last change from outside
    direct,        \* the last direct call of save_data_to_dataframe
    loaded         \* the last call of a loader and what it returned

vars == <<db, s3, fs, args, rowsAreDicts, pc, df, since, data, err, caught,
          failed, queried, wrote, touched, stable, hist, direct, loaded>>

TableOf(a) == SeriesName(a.symbol, a.resolution, a.endpoint_name)
ReadKeyOf(a) == ReadKey(a.symbol, a.resolution, a.endpoint_name, a.storage_type, a.bucket_name)
WriteKeyOf(a) == WriteKey(a.symbol, a.resolution, a.endpoint_name, a.bucket_name)
ReadsS3(a) == a.storage_type = "s3" /\ TruthyStr(a.bucket_name)

\* ------------------------------------------------------------- save_data_from_db_to_df

\* Lines 102-118 once the snapshot is read (snapshot None: nothing was
\* bound to df): the exception that leaves the function, df and since.
LoadWindow(snapshot, resolution) ==
    IF snapshot = None
    THEN [raised |-> Some("UnboundLocalError"), df |-> None, since |-> None]
    ELSE IF empty(Get(snapshot))
    THEN [raised |-> None, df |-> snapshot, since |-> None]
    ELSE IF "time" \notin Get(snapshot).columns
    THEN [raised |-> Some("KeyError"), df |-> snapshot, since |-> None]
    ELSE LET cells == ColumnValues(Get(snapshot), "time")
             last == CHOOSE c \in cells : \A d \in cells : Epoch(d) <= Epoch(c)
         IN  IF cells = {} \/ \E c \in cells : ~IsTimestamp(c)
             THEN [raised |-> Some("AttributeError"), df |-> snapshot, since |-> None]
             ELSE [raised |-> None, df |-> snapshot,
                   since |-> Some(calculate_next_timestamp(Epoch(last), resolution)
                                  + get_buffer_time(resolution))]

\* The view of a series' snapshots a caller has: the row sets at the key the
\* sync reads and at the key it writes.
RowsAt(o) == IF o = None THEN None ELSE Some(RowSet(Get(o)))
SeriesView(a, objects, files) ==
    [read |-> RowsAt(IF ReadsS3(a) THEN objects[ReadKeyOf(a)] ELSE files[ReadKeyOf(a)]),
     written |-> RowsAt(objects[WriteKeyOf(a)])]

Last(h) == IF h = <<>> THEN <<>> ELSE <<h[Len(h)]>>

\* The call of task t ends (returns or raises) with this step, which leaves
\* the object store as objects.
Completes(t, clean, returns, objects) ==
    hist' = IF stable[t]
            THEN Append(Last(hist), [task |-> t, clean |-> clean, returned |-> returns,
                                     view |-> SeriesView(args[t], objects, fs)])
            ELSE <<>>

\* Lines 97-118: derive the keys, read the prior snapshot, compute since.
Call(t) ==
    /\ pc[t] = "idle"
    /\ \E read_ok \in BOOLEAN :
        LET a == args[t]
            file_key == ReadKeyOf(a)
            out == LoadWindow(IF ReadsS3(a) THEN s3[file_key] ELSE fs[file_key], a.resolution)
        IN  /\ (~read_ok => ReadsS3(a))
            /\ IF ~read_ok
               THEN \* a transport or credentials error of the object store
                    /\ pc' = [pc EXCEPT ![t] = "raised"]
                    /\ err' = [err EXCEPT ![t] = Some("ClientError")]
                    /\ failed' = [failed EXCEPT ![t] = TRUE]
                    /\ Completes(t, FALSE, FALSE, s3)
                    /\ UNCHANGED <<df, since>>
               ELSE IF ReadsS3(a) /\ s3[file_key] = None
               THEN \* FileNotFoundError: logged, since stays None
                    /\ pc' = [pc EXCEPT ![t] = "fetch"]
                    /\ UNCHANGED <<df, since, err, failed, hist>>
               ELSE IF out.raised # None
               THEN /\ pc' = [pc EXCEPT ![t] = "raised"]
                    /\ err' = [err EXCEPT ![t] = out.raised]
                    /\ df' = [df EXCEPT ![t] = out.df]
                    /\ Completes(t, TRUE, FALSE, s3)
                    /\ UNCHANGED <<since, failed>>
               ELSE /\ pc' = [pc EXCEPT ![t] = "fetch"]
                    /\ df' = [df EXCEPT ![t] = out.df]
                    /\ since' = [since EXCEPT ![t] = out.since]
                    /\ UNCHANGED <<err, failed, hist>>
    /\ touched' = [touched EXCEPT ![t] = @ \cup {ReadKeyOf(args[t])}]
    /\ UNCHANGED <<db, s3, fs, args, rowsAreDicts, data, caught, queried, wrote, stable, direct, loaded>>

\* Line 121: the query of fetch_data_from_db runs.
Fetch(t) ==
    /\ pc[t] = "fetch"
    /\ \E query_ok \in BOOLEAN :
       \E rows \in fetch_data_from_db(db[TableOf(args[t])], since[t], query_ok) :
            /\ data' = [data EXCEPT ![t] = rows]
            /\ failed' = [failed EXCEPT ![t] = ~query_ok]
            /\ queried' = [queried EXCEPT ![t] = db[TableOf(args[t])]]
    /\ pc' = [pc EXCEPT ![t] = "save"]
    /\ UNCHANGED <<db, s3, fs, args, rowsAreDicts, df, since, err, caught, wrote,
                   touched, stable, hist, direct, loaded>>

HasDataAlways(rows) == TRUE

\* if data:
HasData(rows) == rows # <<>>

\* Lines 122-126: save when there is data; every exception is caught and logged.
Save(t) ==
    /\ pc[t] = "save"
    /\ LET a == args[t]
           out == save_data_to_dataframe(a.symbol, a.resolution, a.endpoint_name,
                      [frame |-> FALSE, dicts |-> rowsAreDicts, rows |-> data[t]],
                      df[t], a.storage_type, a.bucket_name)
       IN  IF ~HasData(data[t])
           THEN /\ Completes(t, ~failed[t], TRUE, s3)
                /\ UNCHANGED <<s3, caught, wrote, failed, touched>>
           ELSE IF out.write = None
           THEN /\ caught' = [caught EXCEPT ![t] = out.raised]
                /\ Completes(t, ~failed[t], TRUE, s3)
                /\ UNCHANGED <<s3, wrote, failed, touched>>
           ELSE \E write_ok \in BOOLEAN :
                    IF write_ok
                    THEN /\ s3' = [s3 EXCEPT ![Get(out.write).key] = Some(Get(out.write).df)]
                         /\ wrote' = [wrote EXCEPT ![t] = out.write]
                         /\ touched' = [touched EXCEPT ![t] = @ \cup {Get(out.write).key}]
                         /\ Completes(t, ~failed[t], TRUE, [s3 EXCEPT ![Get(out.write).key] = Some(Get(out.write).df)])
                         /\ UNCHANGED <<caught, failed>>
                    ELSE \* to_parquet raised: logged inside save_data_to_dataframe
                         /\ failed' = [failed EXCEPT ![t] = TRUE]
                         /\ Completes(t, FALSE, TRUE, s3)
                         /\ UNCHANGED <<s3, caught, wrote, touched>>
    /\ pc' = [pc EXCEPT ![t] = "returned"]
    /\ UNCHANGED <<db, fs, args, rowsAreDicts, df, since, data, err, queried, stable, direct, loaded>>

\* The caller has the outcome; the task may call again.
Return(t) ==
    /\ pc[t] \in {"returned", "raised"}
    /\ pc' = [pc EXCEPT ![t] = "idle"]
    /\ df' = [df EXCEPT ![t] = None]
    /\ since' = [since EXCEPT ![t] = None]
    /\ data' = [data EXCEPT ![t] = <<>>]
    /\ err' = [err EXCEPT ![t] = None]
    /\ caught' = [caught EXCEPT ![t] = None]
    /\ failed' = [failed EXCEPT ![t] = FALSE]
    /\ queried' = [queried EXCEPT ![t] = {}]
    /\ wrote' = [wrote EXCEPT ![t] = None]
    /\ touched' = [touched EXCEPT ![t] = {}]
    /\ stable' = [stable EXCEPT ![t] = TRUE]
    /\ UNCHANGED <<db, s3, fs, args, rowsAreDicts, hist, direct, loaded>>

\* ------------------------------------------------------------- the outside

\* tsdbutils.insert_data without a conflict clause: a row is added to a table.
insert_data(table_name, row) ==
    /\ Cardinality(db[table_name]) < MaxRows
    /\ row \notin db[table_name]
    /\ db' = [db EXCEPT ![table_name] = @ \cup {row}]
    /\ hist' = <<>>
    /\ stable' = [t \in Tasks |-> pc[t] = "idle"]
    /\ UNCHANGED <<s3, fs, args, rowsAreDicts, pc, df, since, data, err, caught,
                   failed, queried, wrote, touched, direct, loaded>>

\* save_data_to_s3(bucket_name, key, df): the frame is written to the path.
save_data_to_s3(bucket_name, key, frame) ==
    /\ S3Path(bucket_name, key) \in S3Keys
    /\ s3[S3Path(bucket_name, key)] # Some(frame)
    /\ s3' = [s3 EXCEPT ![S3Path(bucket_name, key)] = Some(frame)]
    /\ hist' = <<>>
    /\ stable' = [t \in Tasks |-> pc[t] = "idle"]
    /\ UNCHANGED <<db, fs, args, rowsAreDicts, pc, df, since, data, err, caught,
                   failed, queried, wrote, touched, direct, loaded>>

\* ------------------------------------------------------------- specification

IdleTasks ==
    /\ pc = [t \in Tasks |-> "idle"]
    /\ df = [t \in Tasks |-> None]
    /\ since = [t \in Tasks |-> None]
    /\ data = [t \in Tasks |-> <<>>]
    /\ err = [t \in Tasks |-> None]
    /\ caught = [t \in Tasks |-> None]
    /\ failed = [t \in Tasks |-> FALSE]
    /\ queried = [t \in Tasks |-> {}]
    /\ wrote = [t \in Tasks |-> None]
    /\ touched = [t \in Tasks |-> {}]
    /\ stable = [t \in Tasks |-> TRUE]
    /\ hist = <<>>
    /\ direct = None
    /\ loaded = None

\* One series is synced again and again by task 1; the upstream table grows
\* and snapshots appear under data/raw/ meanwhile.  A local file exists or
\* not from the start (nothing in the repository writes one).
Init ==
    /\ \E a \in ArgSpace : a.symbol = "BTC" /\ args = [t \in Tasks |-> a]
    /\ rowsAreDicts \in BOOLEAN
    /\ db = [n \in TableNames |-> {}]
    /\ s3 = [k \in S3Keys |-> None]
    /\ \E seed \in {None} \cup {Some(f) : f \in SeedFrames} :
        /\ (seed # None => args[1].storage_type = "local")
        /\ fs = [p \in Paths |-> IF p = ReadKeyOf(args[1]) THEN seed ELSE None]
    /\ IdleTasks

Next ==
    \/ Call(1)
    \/ Fetch(1)
    \/ Save(1)
    \/ Return(1)
    \/ \E row \in RowUniverse : insert_data(TableOf(args[1]), row)
    \/ \E frame \in SeedFrames :
          /\ ReadsS3(args[1])
          /\ save_data_to_s3(Get(args[1].bucket_name),
                             "data/raw/" \o TableOf(args[1]) \o ".parquet", frame)

Spec == Init /\ [][Next]_vars

\* ------------------------------------------------------------- direct saves

\* Batches handed to save_data_to_dataframe: API rows (t in epoch seconds),
\* with a second timestamp, with a repeated timestamp, database rows (time),
\* rows that are not dicts, rows of three keys, and a DataFrame.
DirectData ==
    {[frame |-> FALSE, dicts |-> TRUE, rows |-> <<[t |-> RawSeconds(100), v |-> 2]>>],
     [frame |-> FALSE, dicts |-> TRUE,
      rows |-> <<[t |-> RawSeconds(100), v |-> 2], [t |-> RawSeconds(200), v |-> 3]>>],
     [frame |-> FALSE, dicts |-> TRUE,
      rows |-> <<[t |-> RawSeconds(300), v |-> 2], [t |-> RawSeconds(300), v |-> 3]>>],
     [frame |-> FALSE, dicts |-> TRUE, rows |-> <<[time |-> Timestamp(100), v |-> 2]>>],
     [frame |-> FALSE, dicts |-> FALSE, rows |-> <<[t |-> RawSeconds(100), v |-> 2]>>],
     [frame |-> FALSE, dicts |-> TRUE, rows |-> <<[t |-> RawSeconds(100), v |-> 2, x |-> 0]>>],
     [frame |-> TRUE, dicts |-> FALSE, rows |-> <<[t |-> Timestamp(200), v |-> 2]>>]}

\* The existing_df of a direct call: none, empty, keyed by t (one with
\* timestamps of its own repeated), keyed by time.
ExistingFrames ==
    {None,
     Some([columns |-> {"t", "v"}, rows |-> <<>>]),
     Some(DataFrame(<<[t |-> Timestamp(100), v |-> 1]>>)),
     Some(DataFrame(<<[t |-> Timestamp(200), v |-> 1], [t |-> Timestamp(100), v |-> 1],
                      [t |-> Timestamp(200), v |-> 9]>>)),
     Some(DataFrame(<<[time |-> Timestamp(100), v |-> 1]>>))}

Identity(a) == <<a.symbol, a.resolution, a.endpoint_name>>

\* A caller other than the sync calls save_data_to_dataframe.
SaveDirect(a, batch, existing_df) ==
    LET out == save_data_to_dataframe(a.symbol, a.resolution, a.endpoint_name, batch,
                                      existing_df, a.storage_type, a.bucket_name)
    IN  \E write_ok \in BOOLEAN :
            /\ (~write_ok => out.write # None)
            /\ s3' = IF write_ok /\ out.write # None
                     THEN [s3 EXCEPT ![Get(out.write).key] = Some(Get(out.write).df)]
                     ELSE s3
            /\ direct' = Some([data |-> batch, existing_df |-> existing_df, raised |-> out.raised,
                               wrote |-> IF write_ok THEN out.write ELSE None])
            /\ hist' = <<>>
            /\ UNCHANGED <<db, fs, args, rowsAreDicts, pc, df, since, data, err, caught,
                           failed, queried, wrote, touched, stable, loaded>>

InitSave ==
    /\ args = [t \in Tasks |-> [symbol |-> "BTC", resolution |-> "1h", endpoint_name |-> "price",
                                 storage_type |-> "s3", bucket_name |-> Some("bkt")]]
    /\ rowsAreDicts = TRUE
    /\ db = [n \in TableNames |-> {}]
    /\ s3 = [k \in S3Keys |-> None]
    /\ fs = [p \in Paths |-> None]
    /\ IdleTasks

\* Direct saves of one series, on either backend, with or without a bucket.
NextSave ==
    \E a \in ArgSpace, batch \in DirectData, existing_df \in ExistingFrames :
        /\ Identity(a) = Identity(args[1])
        /\ SaveDirect(a, batch, existing_df)

SpecSave == InitSave /\ [][NextSave]_vars

\* ------------------------------------------------------------- concurrent syncs

\* Two tasks sync two series of different identity on the object store,
\* their steps interleaved, while the upstream tables grow.
InitConc ==
    /\ \E a, b \in ArgSpace :
           /\ a.symbol = "BTC" /\ a.resolution = "1h"
           /\ b.resolution \in {"1h", "5m"}
           /\ a.storage_type = "s3" /\ a.bucket_name = Some("bkt")
           /\ b.storage_type = "s3" /\ b.bucket_name = Some("bkt")
           /\ Identity(a) # Identity(b)
           /\ args = [t \in Tasks |-> IF t = 1 THEN a ELSE b]
    /\ rowsAreDicts = TRUE
    /\ db = [n \in TableNames |-> {}]
    /\ s3 = [k \in S3Keys |-> None]
    /\ fs = [p \in Paths |-> None]
    /\ IdleTasks

ConcRows == {[time |-> Timestamp(100), v |-> 1]}

NextConc ==
    \/ \E t \in Tasks : Call(t)
    \/ \E t \in Tasks : Fetch(t)
    \/ \E t \in Tasks : Save(t)
    \/ \E t \in Tasks : Return(t)
    \/ \E t \in Tasks, row \in ConcRows : insert_data(TableOf(args[t]), row)

SpecConc == InitConc /\ [][NextConc]_vars

\* ------------------------------------------------------------- syncs and direct saves

\* One series on the object store is synced by task 1 while its upstream
\* table grows and other callers save batches for it directly.
InitMixed == InitSave

\* The direct saves made meanwhile: one API row {t, v}, alone or merged
\* into a one-row frame of the caller.
MixedData == {b \in DirectData : b.dicts /\ Len(b.rows) = 1 /\ DOMAIN b.rows[1] = {"t", "v"}}
MixedExisting == {None, Some(DataFrame(<<[t |-> Timestamp(200), v |-> 1]>>))}

NextMixed ==
    \/ Call(1)
    \/ Fetch(1)
    \/ Save(1)
    \/ Return(1)
    \/ \E row \in ConcRows : insert_data(TableOf(args[1]), row)
    \/ \E batch \in MixedData, existing_df \in MixedExisting :
           SaveDirect(args[1], batch, existing_df)

SpecMixed == InitMixed /\ [][NextMixed]_vars

\* ------------------------------------------------------------- loaders

\* endpoint['path'].split('/')[-1], the path given as its segments.
metric_name(path) == path[Len(path)]

\* file_path of load_dataframes_from_input_file
file_path(symbol, resolution, metric) ==
    "data/raw/" \o lower(symbol) \o "_" \o resolution \o "_" \o metric \o ".parquet"

\* file_key of load_dataframes_from_s3
file_key(bucket_name, symbol, resolution, metric) ==
    "s3://" \o bucket_name \o "/" \o lower(symbol) \o "_" \o resolution \o "_" \o metric
        \o ".parquet"

\* for asset in endpoint['assets']: for resolution in endpoint['resolutions']
EndpointCombos(endpoint) ==
    LET nr == Len(endpoint.resolutions)
    IN  [k \in 1..(Len(endpoint.assets) * nr) |->
            [symbol |-> endpoint.assets[((k - 1) \div nr) + 1],
             resolution |-> endpoint.resolutions[((k - 1) % nr) + 1],
             metric |-> metric_name(endpoint.path)]]

\* for endpoint in config: the combinations in the order the loops visit them.
RECURSIVE ConfigCombos(_)
ConfigCombos(config) ==
    IF config = <<>> THEN <<>>
    ELSE EndpointCombos(Head(config)) \o ConfigCombos(Tail(config))

\* df.set_index('time', inplace=True); df = df[~df.index.duplicated(keep='first')]
IndexedByTime(frame) ==
    [columns |-> frame.columns \ {"time"}, index |-> "time",
     rows |-> SelectIdx(frame.rows, KeepFirst(frame.rows, "time"), 1)]

\* The loop body over the combinations left, keys[k] the key of the k-th:
\* a missing snapshot is skipped, a snapshot without a time column raises
\* KeyError, any other is stored under its metric name.
RECURSIVE LoadLoop(_, _, _, _)
LoadLoop(combos, keys, store, dataframes) ==
    IF combos = <<>> THEN [raised |-> None, dataframes |-> dataframes]
    ELSE LET snapshot == store[Head(keys)]
         IN  IF snapshot = None
             THEN LoadLoop(Tail(combos), Tail(keys), store, dataframes)
             ELSE IF "time" \notin Get(snapshot).columns
             THEN [raised |-> Some("KeyError"), dataframes |-> dataframes]
             ELSE LoadLoop(Tail(combos), Tail(keys), store,
                           [dataframes EXCEPT ![Head(combos).metric] =
                               Some(IndexedByTime(Get(snapshot)))])

LocalKeys(combos) ==
    [k \in 1..Len(combos) |-> file_path(combos[k].symbol, combos[k].resolution, combos[k].metric)]

ObjectKeys(bucket_name, combos) ==
    [k \in 1..Len(combos) |->
        file_key(bucket_name, combos[k].symbol, combos[k].resolution, combos[k].metric)]

load_dataframes_from_input_file(config) ==
    LET combos == ConfigCombos(config)
        out == LoadLoop(combos, LocalKeys(combos), fs, [m \in Endpoints |-> None])
    IN  /\ loaded' = Some([config |-> config, backend |-> "local", backend_ok |-> TRUE,
                           raised |-> out.raised, dataframes |-> out.dataframes])
        /\ UNCHANGED <<db, s3, fs, args, rowsAreDicts, pc, df, since, data, err, caught,
                       failed, queried, wrote, touched, stable, hist, direct>>

\* backend_ok: the object store answers; when it does not, the first read
\* raises (credentials or transport), which the loader re-raises.
load_dataframes_from_s3(bucket_name, config, backend_ok) ==
    LET combos == ConfigCombos(config)
        out == IF backend_ok \/ combos = <<>>
               THEN LoadLoop(combos, ObjectKeys(bucket_name, combos), s3,
                             [m \in Endpoints |-> None])
               ELSE [raised |-> Some("NoCredentialsError"),
                     dataframes |-> [m \in Endpoints |-> None]]
    IN  /\ loaded' = Some([config |-> config, backend |-> "s3", backend_ok |-> backend_ok,
                           raised |-> out.raised, dataframes |-> out.dataframes])
        /\ UNCHANGED <<db, s3, fs, args, rowsAreDicts, pc, df, since, data, err, caught,
                       failed, queried, wrote, touched, stable, hist, direct>>

\* The series the configurations declare, and the snapshot of each (its
\* rows differ from every other one's).
LoadSymbols == {"BTC", "ETH"}
LoadResolutions == {"1h", "24h"}
LoadSeries == LoadSymbols \X LoadResolutions

SnapshotOf(series) ==
    DataFrame(<<[time |-> Timestamp(100), v |-> series],
                [time |-> Timestamp(IF series[2] = "1h" THEN 3700 ELSE 86500), v |-> series]>>)

\* Configurations: one endpoint, or two whose paths end in the same segment.
LoadEndpoints ==
    {[path |-> p, assets |-> a, resolutions |-> r] :
        p \in {<<"v1", "price">>, <<"v2", "price">>},
        a \in {<<"BTC">>, <<"BTC", "ETH">>, <<"ETH", "BTC">>},
        r \in {<<"1h">>, <<"1h", "24h">>}}

Configs ==
    {<<>>} \cup {<<e>> : e \in LoadEndpoints}
    \cup {<<[path |-> <<"v1", "price">>, assets |-> <<"BTC">>, resolutions |-> <<"1h">>],
            [path |-> <<"v2", "price">>, assets |-> <<"ETH">>, resolutions |-> <<"1h">>]>>}

\* A snapshot of API rows, keyed by t: it has no time column.
KeyedByT == DataFrame(<<[t |-> Timestamp(100), v |-> 0]>>)

Stored(present, foreign, keyed, key) ==
    IF \E series \in present : keyed[series] = key
    THEN LET series == CHOOSE x \in present : keyed[x] = key
         IN  Some(IF series \in foreign THEN KeyedByT ELSE SnapshotOf(series))
    ELSE None

\* Any of the declared series has a snapshot, on both backends, or none; the
\* hourly BTC one may be a snapshot of API rows.
InitLoad ==
    /\ args = [t \in Tasks |-> [symbol |-> "BTC", resolution |-> "1h", endpoint_name |-> "price",
                                 storage_type |-> "s3", bucket_name |-> Some("bkt")]]
    /\ rowsAreDicts = TRUE
    /\ db = [n \in TableNames |-> {}]
    /\ \E present \in SUBSET LoadSeries, foreign \in SUBSET {<<"BTC", "1h">>} :
        /\ foreign \subseteq present
        /\ fs = [p \in Paths |->
                    Stored(present, foreign,
                           [x \in LoadSeries |-> file_path(x[1], x[2], "price")], p)]
        /\ s3 = [k \in S3Keys |->
                    Stored(present, foreign,
                           [x \in LoadSeries |-> file_key("bkt", x[1], x[2], "price")], k)]
    /\ IdleTasks

NextLoad ==
    \/ \E config \in Configs : load_dataframes_from_input_file(config)
    \/ \E config \in Configs, backend_ok \in BOOLEAN :
           load_dataframes_from_s3("bkt", config, backend_ok)

SpecLoad == InitLoad /\ [][NextLoad]_vars

\* ------------------------------------------------------------- claims

Ended(t) == pc[t] \in {"returned", "raised"}

NoRepeatedTime(frame) ==
    \A i, j \in 1..Len(frame.rows) :
        i < j => Cell(frame.rows[i], "time") # Cell(frame.rows[j], "time")

\* C1: every snapshot a sync persists has no two rows with the same time
\* value, whatever the existing snapshot and the fetched batch are.
C1_NoDuplicateTimestamps ==
    \A t \in Tasks : wrote[t] # None => NoRepeatedTime(Get(wrote[t]).df)

\* C3: with no prior snapshot, on either backend, the sync ends without
\* raising, fetched with since = None and, when the fetch returned rows (and
\* nothing failed), left a snapshot holding exactly those rows at the series'
\* location (the key it reads, or the key it writes).
C3_Bootstrap ==
    \A t \in Tasks :
        (Ended(t) /\ df[t] = None /\ ~failed[t]) =>
            /\ pc[t] = "returned"
            /\ since[t] = None
            /\ data[t] # <<>> =>
                   LET view == SeriesView(args[t], s3, fs)
                       fetched == Some({data[t][i] : i \in 1..Len(data[t])})
                   IN  view.read = fetched \/ view.written = fetched

\* C6: no exception of a sync reaches its caller.
C6_NeverPropagates == \A t \in Tasks : pc[t] # "raised"

\* C7: the key a sync writes the merged snapshot to is the key it reads the
\* prior snapshot from.
C7_OneLocation ==
    \A t \in Tasks : wrote[t] # None => Get(wrote[t]).key = ReadKeyOf(args[t])

\* C9: a query that did not fail returns, for every since that is not None
\* (0 included), exactly the rows with time > since, ascending in time, and
\* the whole table only when since is None.
C9_FetchFilter ==
    \A t \in Tasks :
        (pc[t] = "save" /\ ~failed[t]) =>
            /\ {data[t][i] : i \in 1..Len(data[t])} =
                   IF since[t] = None THEN queried[t]
                   ELSE {r \in queried[t] : Epoch(r.time) > Get(since[t])}
            /\ \A i, j \in 1..Len(data[t]) :
                   i < j => Epoch(data[t][i].time) <= Epoch(data[t][j].time)

ClaimedInterval(resolution) ==
    CASE resolution = "10m" -> 600
      [] resolution = "1h" -> 3600
      [] resolution = "24h" -> 86400
      [] OTHER -> 0

ClaimedBuffer(resolution) == IF resolution \in {"10m", "1h", "24h"} THEN 360 ELSE 0

NewestTime(frame) ==
    LET times == {Epoch(c) : c \in ColumnValues(frame, "time")}
    IN  CHOOSE n \in times : \A m \in times : m <= n

\* C8: a sync that fetches does so with since = L + interval + buffer when
\* it read a non-empty snapshot of newest time L (interval 600, 3600, 86400
\* for 10m, 1h, 24h and 0 otherwise; buffer 360 for the three, 0 otherwise),
\* and with since = None when it read no snapshot or an empty one; L = 1000
\* at 1h gives 4600 and, with the buffer, 4960.
C8_FetchCutoff ==
    /\ \A t \in Tasks :
          pc[t] \in {"fetch", "save", "returned"} =>
              since[t] = IF df[t] # None /\ Get(df[t]).rows # <<>>
                         THEN Some(NewestTime(Get(df[t]))
                                   + ClaimedInterval(args[t].resolution)
                                   + ClaimedBuffer(args[t].resolution))
                         ELSE None
    /\ calculate_next_timestamp(1000, "1h") = 4600
    /\ calculate_next_timestamp(1000, "1h") + get_buffer_time("1h") = 4960

\* A daily series with a snapshot of newest time 100 is about to fetch.
C8_Witness ==
    \E t \in Tasks :
        /\ pc[t] = "fetch"
        /\ args[t].resolution = "24h"
        /\ since[t] = Some(100 + 86400 + 360)

\* C4: a sync whose fetch returned no rows (nothing new, or a failed query
\* degraded to an empty result) writes nothing: no step of it other than
\* the save of a non-empty batch changes the object store or the files.
C4_EmptyFetchNoWrite ==
    [][\A t \in Tasks :
          (pc'[t] # pc[t] /\ ~(pc[t] = "save" /\ data[t] # <<>>)) =>
              (s3' = s3 /\ fs' = fs)]_vars

\* A sync read a non-empty snapshot, its query succeeded on a table that
\* holds rows, none of them new, and it has returned.
C4_Witness ==
    \E t \in Tasks :
        /\ pc[t] = "returned"
        /\ df[t] # None /\ ~empty(Get(df[t]))
        /\ data[t] = <<>> /\ ~failed[t] /\ queried[t] # {}

TimesOf(rows) == {Epoch(rows[i].t) : i \in {k \in 1..Len(rows) : "t" \in DOMAIN rows[k]}}

FirstWith(rows, n) ==
    rows[CHOOSE i \in 1..Len(rows) :
            /\ "t" \in DOMAIN rows[i] /\ Epoch(rows[i].t) = n
            /\ \A j \in 1..(i - 1) : ~("t" \in DOMAIN rows[j] /\ Epoch(rows[j].t) = n)]

Locations(a) == {ReadKeyOf(a), WriteKeyOf(a)}

WriteSurvives(t) ==
    ((\A u \in Tasks : Ended(u)) /\ wrote[t] # None) =>
        s3[Get(wrote[t]).key] = Some(Get(wrote[t]).df)

\* C10 as stated: of two syncs of series with different identities
\* (symbol, resolution, metric), under every interleaving, neither reads or
\* writes a location of the other, and what each wrote is what its
\* location holds when both have ended.
C10_Isolation ==
    \A a, b \in Tasks :
        Identity(args[a]) # Identity(args[b]) =>
            /\ touched[a] \cap Locations(args[b]) = {}
            /\ WriteSurvives(a)

LocationName(a) == lower(a.symbol) \o "_" \o a.resolution \o "_" \o a.endpoint_name

\* C10: the same, of two series whose identities still differ once the
\* symbol is lower-cased, as the location derivation does.
C10_IsolationOfLocations ==
    \A a, b \in Tasks :
        LocationName(args[a]) # LocationName(args[b]) =>
            /\ touched[a] \cap Locations(args[b]) = {}
            /\ WriteSurvives(a)

\* Two syncs of series at different locations have both written and returned.
C10_Witness ==
    /\ LocationName(args[1]) # LocationName(args[2])
    /\ \A t \in Tasks : pc[t] = "returned" /\ wrote[t] # None

RowsKept(before, after) ==
    before # None => (after # None /\ RowSet(Get(before)) \subseteq RowSet(Get(after)))

\* C11: no step of a sync removes or changes a row of the snapshot persisted
\* at a location of its series: every row there before the step is there,
\* with the same values, after it.
C11_NoDataLoss ==
    [][\A t \in Tasks :
          pc'[t] # pc[t] =>
              \A k \in Locations(args[t]) \cap S3Keys : RowsKept(s3[k], s3'[k])]_vars

Snapshots(call) ==
    LET combos == ConfigCombos(call.config)
        keys == IF call.backend = "local" THEN LocalKeys(combos) ELSE ObjectKeys("bkt", combos)
        store == IF call.backend = "local" THEN fs ELSE s3
    IN  {[metric |-> combos[k].metric, frame |-> Get(store[keys[k]])] :
            k \in {i \in 1..Len(combos) : store[keys[i]] # None}}

\* C12: a loader given snapshots that all have a time column, on a backend
\* that answers, raises nothing (missing snapshots are skipped), and the
\* table it returns under a metric name holds the rows of every existing
\* snapshot of a declared combination of that metric name.
C12_SharedKeyConcatenates ==
    (/\ loaded # None
     /\ Get(loaded).backend_ok
     /\ \A x \in Snapshots(Get(loaded)) : "time" \in x.frame.columns) =>
        /\ Get(loaded).raised = None
        /\ \A x \in Snapshots(Get(loaded)) :
               /\ Get(loaded).dataframes[x.metric] # None
               /\ RowSet(IndexedByTime(x.frame))
                      \subseteq RowSet(Get(Get(loaded).dataframes[x.metric]))

MissingLocally(t) ==
    {r \in queried[t] : Epoch(r.time) > NewestTime(Get(df[t]))}

PersistedRows(t) ==
    LET view == SeriesView(args[t], s3, fs)
    IN  (IF view.read = None THEN {} ELSE Get(view.read))
        \cup (IF view.written = None THEN {} ELSE Get(view.written))

\* C13: a sync that read a non-empty snapshot of newest time L and whose
\* query succeeded has fetched exactly the upstream rows with time > L, and
\* once it has returned without a failure each of them is in the persisted
\* snapshot.
C13_DeltaComplete ==
    \A t \in Tasks :
        (~failed[t] /\ df[t] # None /\ ~empty(Get(df[t]))) =>
            /\ pc[t] = "save" => {data[t][i] : i \in 1..Len(data[t])} = MissingLocally(t)
            /\ pc[t] = "returned" => MissingLocally(t) \subseteq PersistedRows(t)

====
